---- MODULE Spec2Model ----
(***************************************************************************)
(* Model of the le-q live quiz: the four tables of the Supabase schema     *)
(* (rooms, players, questions, answers), the home page (createRoom,        *)
(* joinRoom), the host page (sendQuestion, endGame, markAnswerCorrect,     *)
(* updatePlayerScore and its two view loaders), the player page            *)
(* (loadPlayerData, submitAnswer, updateConnectionStatus) and the Realtime *)
(* channels both pages subscribe to.                                       *)
(*                                                                         *)
(* Every supabase call is one atomic step on the tables; a handler that    *)
(* awaits several calls is a sequence of steps, so that two browsers can   *)
(* interleave between the awaits.  Rows are records, tables are sets of    *)
(* rows, uuids are fresh integers.                                         *)
(***************************************************************************)
EXTENDS Integers, Sequences, FiniteSets, TLC

\* ---------------------------------------------------------------- bounds
MaxRooms == 2
MaxPlayers == 2
MaxQuestions == 2
MaxAnswers == 2
MaxScore == 2
MaxEvents == 8

\* ------------------------------------------------------- browsers, inputs
Hosts == {"h1", "h2"}
Clients == {"c1", "c2"}

\* What a user can type in a text field (question, answer, pseudo).
TextInputs == {<< >>, <<" ">>, <<"x">>, <<" ", "x", " ">>}
\* What a user can type in the room code field.
CodeInputs == {<< >>, <<"a">>, <<"A">>, <<"b">>, <<" ", "a">>, <<"B", " ">>}
\* Math.random().toString(36).substring(2, 8): lower-case base 36.
RawCodes == {<<"a">>, <<"b">>}
\* The amounts updatePlayerScore is called with.
Deltas == {-2, -1, 1}

NoId == 0

VARIABLES
    rooms,        \* table rooms:     [id, code, is_active]
    players,      \* table players:   [id, room_id, score, is_connected]
    questions,    \* table questions: [id, room_id, is_active]
    answers,      \* table answers:   [id, player_id, question_id, room_id, is_correct]
    nextId,       \* gen_random_uuid(): next fresh id per table
    host,         \* one HostClient (or home page) per browser of Hosts
    client,       \* one PlayClient (or home page) per browser of Clients
    lastOp,       \* the last finished command and what it reported
    realtime      \* Supabase Realtime: the changes on their way to the browsers

vars == <<rooms, players, questions, answers, nextId, host, client, lastOp,
          realtime>>

\* ------------------------------------------------------------ pure helpers
\* String.prototype.toUpperCase, one character.
UpperChar(ch) ==
    CASE ch = "a" -> "A"
      [] ch = "b" -> "B"
      [] ch = "x" -> "X"
      [] OTHER -> ch

\* String.prototype.toUpperCase.
ToUpperCase(s) == [i \in 1..Len(s) |-> UpperChar(s[i])]

RECURSIVE TrimStart(_)
TrimStart(s) ==
    IF s # << >> /\ Head(s) = " " THEN TrimStart(Tail(s)) ELSE s

RECURSIVE TrimEnd(_)
TrimEnd(s) ==
    IF s # << >> /\ s[Len(s)] = " " THEN TrimEnd(SubSeq(s, 1, Len(s) - 1)) ELSE s

\* String.prototype.trim.
Trim(s) == TrimEnd(TrimStart(s))

\* Math.max.
Max(a, b) == IF a >= b THEN a ELSE b

\* generateRoomCode: the random base-36 digits, upper-cased.
generateRoomCode(raw) == ToUpperCase(raw)

\* ------------------------------------------------------------------ tables
RoomIds == 1..MaxRooms
PlayerIds == 1..MaxPlayers
QuestionIds == 1..MaxQuestions
AnswerIds == 1..MaxAnswers

\* rooms(id) exists: the target of the foreign keys players.room_id and
\* questions.room_id.
RoomExists(r) == \E row \in rooms : row.id = r

PlayerExists(p) == \E row \in players : row.id = p

QuestionExists(q) == \E row \in questions : row.id = q

\* Mutant of CodeTaken: the column has no UNIQUE constraint.
CodeNeverTaken(code) == FALSE

\* rooms.code is UNIQUE: a stored room, active or not, already has the code.
CodeTaken(code) == \E row \in rooms : row.code = code

\* Mutant of FindActiveRoom: the filter on the code is missing.
FindAnyActiveRoom(code) == {row \in rooms : row.is_active}

\* from("rooms").select("id").eq("code", code).eq("is_active", true)
FindActiveRoom(code) == {row \in rooms : row.code = code /\ row.is_active}

\* Mutant of InsertedPlayer: the player is inserted as not connected.
InsertedPlayerOffline(id, r) ==
    [id |-> id, room_id |-> r, score |-> 0, is_connected |-> FALSE]

\* insert({ pseudo, room_id }): score and is_connected take the column defaults.
InsertedPlayer(id, r) ==
    [id |-> id, room_id |-> r, score |-> 0, is_connected |-> TRUE]

\* insert({ room_id, text, correct_answer, is_active: true })
InsertedQuestion(id, r) ==
    [id |-> id, room_id |-> r, correct_answer |-> "x", is_active |-> TRUE]

\* insert({ player_id, question_id, room_id, text, response_time, is_correct: false })
InsertedAnswer(id, p, q, r) ==
    [id |-> id, player_id |-> p, question_id |-> q, room_id |-> r,
     is_correct |-> FALSE]

\* from("questions").update({ is_active: false }).eq("room_id", r).eq("is_active", true)
DeactivateQuestions(qs, r) ==
    {IF row.room_id = r /\ row.is_active
        THEN [row EXCEPT !.is_active = FALSE] ELSE row : row \in qs}

\* The questions of room r that are active.
ActiveQuestions(r) == {row \in questions : row.room_id = r /\ row.is_active}

\* Mutant of PlayersAfterRoomDelete: the foreign key does not cascade.
PlayersAfterRoomDeleteNoCascade(ps, r) == ps

\* players.room_id REFERENCES rooms(id) ON DELETE CASCADE
PlayersAfterRoomDelete(ps, r) == {row \in ps : row.room_id # r}

\* questions.room_id REFERENCES rooms(id) ON DELETE CASCADE
QuestionsAfterRoomDelete(qs, r) == {row \in qs : row.room_id # r}

\* answers.player_id REFERENCES players(id) ON DELETE CASCADE and
\* answers.question_id REFERENCES questions(id) ON DELETE CASCADE:
\* the answers left once only the players ps and the questions qs remain.
AnswersAfterCascade(as, ps, qs) ==
    {row \in as : /\ \E p \in ps : p.id = row.player_id
                  /\ \E q \in qs : q.id = row.question_id}

\* Mutant of AnswersAfterRoomClear: the answers are reset, not deleted.
AnswersAfterRoomReset(as, r) ==
    {IF row.room_id = r THEN [row EXCEPT !.is_correct = FALSE] ELSE row : row \in as}

\* from("answers").delete().eq("room_id", r)
AnswersAfterRoomClear(as, r) == {row \in as : row.room_id # r}

\* ------------------------------------------------------------- browser state
NoAnswer == [id |-> NoId, player_id |-> NoId, is_correct |-> FALSE, pscore |-> 0]

\* HostClient: roomId is the page's room (NoId on the home page), pc the await
\* the running handler is at ("idle": isLoading false), pend the calls of a
\* Promise.all not yet applied, newQ the id of the row sendQuestion's insert
\* returned, mk the argument of markAnswerCorrect, ended is isGameEnded,
\* vAnswers and vPlayers are the answers and players lists.
HostInit ==
    [roomId |-> NoId, pc |-> "idle", pend |-> {}, newQ |-> NoId, mk |-> NoAnswer,
     ended |-> FALSE, vAnswers |-> {}, vPlayers |-> {}]

\* PlayClient: playerId is the page's player (NoId on the home page), roomRef is
\* playerRoomIdRef, then currentQuestion (its id), hasAnswered and
\* lastCorrectAnswer (the player the notification names, NoId for null).
ClientInit ==
    [playerId |-> NoId, roomRef |-> NoId, currentQuestion |-> NoId,
     hasAnswered |-> FALSE, lastCorrectAnswer |-> NoId]

\* Realtime: seq counts the row changes committed so far; sub[c] says whether
\* the channels of PlayClient c are joined, inbox[c] holds the questions changes
\* delivered to it and not yet handled, got[c] the columns of the questions
\* rows it was sent, handled[c] the id of the row of the payload it handled
\* last (NoId after a loadPlayerData), graded[c] the answers rows of the UPDATE
\* payloads delivered to it and not yet handled; pending[h] counts the players changes delivered to
\* HostClient h and not yet handled, fetched[h] holds the results of its
\* loadRoomData requests still in flight (each with the seq it read at),
\* shown[h] is the seq of the result its players list shows; wrote[h] says
\* whether the handler h is running has changed a table, told[h] whether a
\* change of it was delivered to another browser.
RealtimeInit ==
    [seq |-> 0,
     sub |-> [c \in Clients |-> FALSE],
     inbox |-> [c \in Clients |-> << >>],
     got |-> [c \in Clients |-> {}],
     handled |-> [c \in Clients |-> NoId],
     graded |-> [c \in Clients |-> {}],
     pending |-> [h \in Hosts |-> 0],
     fetched |-> [h \in Hosts |-> {}],
     shown |-> [h \in Hosts |-> 0],
     wrote |-> [h \in Hosts |-> FALSE],
     told |-> [h \in Hosts |-> FALSE]]

Init ==
    /\ rooms = {}
    /\ players = {}
    /\ questions = {}
    /\ answers = {}
    /\ nextId = [rooms |-> 1, players |-> 1, questions |-> 1, answers |-> 1]
    /\ host = [h \in Hosts |-> HostInit]
    /\ client = [c \in Clients |-> ClientInit]
    /\ lastOp = [op |-> "none", res |-> "none", arg |-> 0]
    /\ realtime = RealtimeInit

\* What the finished handler showed: "ok" (its success notification), "error"
\* (its catch branch), "invalid" (its input check), "noop" (a silent return).
Report(op, res) == lastOp' = [op |-> op, res |-> res, arg |-> 0]

\* ------------------------------------------------------------------ home page
\* createRoom: one insert; the UNIQUE constraint on rooms.code rejects a code
\* that any stored room already has.
CreateRoom(h, raw) ==
    /\ host[h].roomId = NoId
    /\ nextId.rooms <= MaxRooms
    /\ LET code == generateRoomCode(raw) IN
       IF CodeTaken(code)
       THEN /\ Report("createRoom", "error")
            /\ UNCHANGED <<rooms, players, questions, answers, nextId, host, client>>
       ELSE /\ rooms' = rooms \cup
                  {[id |-> nextId.rooms, code |-> code, is_active |-> TRUE]}
            /\ nextId' = [nextId EXCEPT !.rooms = @ + 1]
            /\ host' = [host EXCEPT ![h].roomId = nextId.rooms]
            /\ Report("createRoom", "ok")
            /\ UNCHANGED <<players, questions, answers, client>>

\* HostPage: a second browser opens /host/<roomId> of a stored room.
HostOpen(h, r) ==
    /\ host[h].roomId = NoId
    /\ RoomExists(r)
    /\ host' = [host EXCEPT ![h].roomId = r]
    /\ UNCHANGED <<rooms, players, questions, answers, nextId, client, lastOp>>

\* joinRoom: look the room up by the trimmed, upper-cased code, then insert the
\* player.  The insert's foreign key makes it fail if the room is gone.
JoinRoom(c, codeIn, pseudoIn) ==
    /\ client[c].playerId = NoId
    /\ LET code == ToUpperCase(Trim(codeIn))
           name == Trim(pseudoIn)
           found == FindActiveRoom(code)
       IN
       IF code = << >> \/ name = << >>
       THEN /\ Report("joinRoom", "invalid")
            /\ UNCHANGED <<rooms, players, questions, answers, nextId, host, client>>
       ELSE IF Cardinality(found) # 1
       THEN /\ Report("joinRoom", "error")
            /\ UNCHANGED <<rooms, players, questions, answers, nextId, host, client>>
       ELSE /\ nextId.players <= MaxPlayers
            /\ LET r == (CHOOSE row \in found : TRUE).id IN
               players' = players \cup {InsertedPlayer(nextId.players, r)}
            /\ nextId' = [nextId EXCEPT !.players = @ + 1]
            /\ client' = [client EXCEPT ![c].playerId = nextId.players]
            /\ Report("joinRoom", "ok")
            /\ UNCHANGED <<rooms, questions, answers, host>>

\* PlayPage: a browser opens /play/<playerId> of a stored player.
PlayOpen(c, p) ==
    /\ client[c].playerId = NoId
    /\ PlayerExists(p)
    /\ client' = [client EXCEPT ![c].playerId = p]
    /\ UNCHANGED <<rooms, players, questions, answers, nextId, host, lastOp>>

\* ------------------------------------------------------------------ host page
Attached(h) == host[h].roomId # NoId /\ ~host[h].ended

Idle(h) == Attached(h) /\ host[h].pc = "idle"

\* What loadRoomData reads: the players of the room.
PlayersOfRoom(r) ==
    {[id |-> row.id, score |-> row.score] : row \in {x \in players : x.room_id = r}}

\* What loadAnswersForQuestion reads: the active question with .single() (an
\* error unless exactly one row), then the room's answers to it, each with its
\* player embedded.
AnswersOfActiveQuestion(r) ==
    IF Cardinality(ActiveQuestions(r)) # 1 THEN {}
    ELSE LET q == CHOOSE row \in ActiveQuestions(r) : TRUE IN
         {[id |-> a.id, player_id |-> a.player_id, is_correct |-> a.is_correct,
           pscore |-> (CHOOSE x \in players : x.id = a.player_id).score] :
          a \in {x \in answers : x.room_id = r /\ x.question_id = q.id}}

\* loadRoomData, run on mount and on every players change of the room.
LoadRoomData(h) ==
    /\ Attached(h)
    /\ host' = [host EXCEPT ![h].vPlayers = PlayersOfRoom(host[h].roomId)]
    /\ UNCHANGED <<rooms, players, questions, answers, nextId, client, lastOp>>

\* loadAnswersForQuestion, run on every answers change of the room and by the
\* refresh button.
LoadAnswersForQuestion(h) ==
    /\ Attached(h)
    /\ host' = [host EXCEPT ![h].vAnswers = AnswersOfActiveQuestion(host[h].roomId)]
    /\ UNCHANGED <<rooms, players, questions, answers, nextId, client, lastOp>>

\* Mutant of ValidQuestion: only the question text is checked.
ValidQuestionTextOnly(text, answer) == Trim(text) # << >>

\* sendQuestion's guard: both fields non-empty once trimmed.
ValidQuestion(text, answer) == Trim(text) # << >> /\ Trim(answer) # << >>

\* sendQuestion up to its first await: validate, then deactivate the room's
\* active questions.
SendQuestionBegin(h, text, answer) ==
    /\ Idle(h)
    /\ nextId.questions + Cardinality({g \in Hosts : host[g].pc = "sq_insert"})
          <= MaxQuestions
    /\ IF ~ValidQuestion(text, answer)
       THEN /\ Report("sendQuestion", "invalid")
            /\ UNCHANGED <<rooms, players, questions, answers, nextId, host, client>>
       ELSE /\ questions' = DeactivateQuestions(questions, host[h].roomId)
            /\ host' = [host EXCEPT ![h].pc = "sq_insert"]
            /\ UNCHANGED <<rooms, players, answers, nextId, client, lastOp>>

\* sendQuestion's second await: insert the new active question; the foreign key
\* on room_id rejects it when the room is gone, and the handler reports the error.
SendQuestionInsert(h) ==
    /\ host[h].pc = "sq_insert"
    /\ IF ~RoomExists(host[h].roomId)
       THEN /\ host' = [host EXCEPT ![h].pc = "idle"]
            /\ Report("sendQuestion", "error")
            /\ UNCHANGED <<rooms, players, questions, answers, nextId, client>>
       ELSE /\ questions' = questions \cup
                  {InsertedQuestion(nextId.questions, host[h].roomId)}
            /\ nextId' = [nextId EXCEPT !.questions = @ + 1]
            /\ host' = [host EXCEPT ![h].pc = "sq_clear",
                                    ![h].newQ = nextId.questions]
            /\ UNCHANGED <<rooms, players, answers, client, lastOp>>

\* sendQuestion's third await: delete the room's answers, empty the answers list.
SendQuestionClear(h) ==
    /\ host[h].pc = "sq_clear"
    /\ answers' = AnswersAfterRoomClear(answers, host[h].roomId)
    /\ host' = [host EXCEPT ![h].pc = "idle", ![h].newQ = NoId,
                            ![h].vAnswers = {}]
    /\ Report("sendQuestion", "ok")
    /\ UNCHANGED <<rooms, players, questions, nextId, client>>

\* One of the three deletes endGame sends together with Promise.all.
EndGameDelete(h, t) ==
    LET r == host[h].roomId
        ps == IF t = "players" THEN {row \in players : row.room_id # r} ELSE players
        qs == IF t = "questions" THEN {row \in questions : row.room_id # r}
              ELSE questions
        as == IF t = "answers" THEN AnswersAfterRoomClear(answers, r) ELSE answers
    IN /\ players' = ps
       /\ questions' = qs
       /\ answers' = AnswersAfterCascade(as, ps, qs)

\* endGame, confirmed: the three deletes are sent at once and reach the
\* database in any order.
EndGameBegin(h, t) ==
    /\ Idle(h)
    /\ t \in {"answers", "questions", "players"}
    /\ EndGameDelete(h, t)
    /\ host' = [host EXCEPT ![h].pc = "eg_clean",
                            ![h].pend = {"answers", "questions", "players"} \ {t}]
    /\ UNCHANGED <<rooms, nextId, client, lastOp>>

EndGameClean(h, t) ==
    /\ host[h].pc = "eg_clean"
    /\ t \in host[h].pend
    /\ EndGameDelete(h, t)
    /\ host' = [host EXCEPT ![h].pend = @ \ {t}]
    /\ UNCHANGED <<rooms, nextId, client, lastOp>>

\* endGame's last delete: the room itself, with the cascades of the schema;
\* then the local lists are emptied and isGameEnded is set.
EndGameRoom(h) ==
    /\ host[h].pc = "eg_clean"
    /\ host[h].pend = {}
    /\ LET r == host[h].roomId
           ps == PlayersAfterRoomDelete(players, r)
           qs == QuestionsAfterRoomDelete(questions, r)
       IN /\ rooms' = {row \in rooms : row.id # r}
          /\ players' = ps
          /\ questions' = qs
          /\ answers' = AnswersAfterCascade(answers, ps, qs)
    /\ host' = [host EXCEPT ![h].pc = "idle", ![h].ended = TRUE,
                            ![h].vAnswers = {}, ![h].vPlayers = {}]
    /\ Report("endGame", "ok")
    /\ UNCHANGED <<nextId, client>>

\* The score markAnswerCorrect writes: (answer.player?.score || 0) + 1, from
\* the player embedded in the answers list.
MarkedScore(a) == a.pscore + 1

\* markAnswerCorrect up to its await: nothing to do for an answer the list
\* shows as correct, else send both updates with Promise.all.
MarkBegin(h, a) ==
    /\ Idle(h)
    /\ a \in host[h].vAnswers
    /\ IF a.is_correct
       THEN /\ Report("markAnswerCorrect", "noop")
            /\ UNCHANGED <<rooms, players, questions, answers, nextId, host, client>>
       ELSE /\ MarkedScore(a) <= MaxScore
            /\ host' = [host EXCEPT ![h].pc = "mk", ![h].mk = a,
                                    ![h].pend = {"answer", "player"}]
            /\ UNCHANGED <<rooms, players, questions, answers, nextId, client, lastOp>>

\* from("answers").update({ is_correct: true }).eq("id", answer.id)
MarkWriteAnswer(h) ==
    /\ host[h].pc = "mk"
    /\ "answer" \in host[h].pend
    /\ answers' = {IF row.id = host[h].mk.id
                      THEN [row EXCEPT !.is_correct = TRUE] ELSE row : row \in answers}
    /\ host' = [host EXCEPT ![h].pend = @ \ {"answer"}]
    /\ UNCHANGED <<rooms, players, questions, nextId, client, lastOp>>

\* from("players").update({ score: ... }).eq("id", answer.player_id)
MarkWritePlayer(h) ==
    /\ host[h].pc = "mk"
    /\ "player" \in host[h].pend
    /\ players' = {IF row.id = host[h].mk.player_id
                      THEN [row EXCEPT !.score = MarkedScore(host[h].mk)]
                      ELSE row : row \in players}
    /\ host' = [host EXCEPT ![h].pend = @ \ {"player"}]
    /\ UNCHANGED <<rooms, questions, answers, nextId, client, lastOp>>

\* markAnswerCorrect after both updates: reload both lists, notify.
MarkDone(h) ==
    /\ host[h].pc = "mk"
    /\ host[h].pend = {}
    /\ host' = [host EXCEPT ![h].pc = "idle", ![h].mk = NoAnswer,
                            ![h].vAnswers = AnswersOfActiveQuestion(host[h].roomId),
                            ![h].vPlayers = PlayersOfRoom(host[h].roomId)]
    /\ Report("markAnswerCorrect", "ok")
    /\ UNCHANGED <<rooms, players, questions, answers, nextId, client>>

\* Mutant of AdjustedScore: the sum is written as it is.
AdjustedScoreNoClamp(score, amount) == score + amount

\* The score updatePlayerScore writes: Math.max(0, player.score + amount).
AdjustedScore(score, amount) == Max(0, score + amount)

\* updatePlayerScore for a player of the players list: write the new score to
\* the table and to the list.  arg records player.score + amount.
UpdatePlayerScore(h, p, amount) ==
    /\ Idle(h)
    /\ \E row \in host[h].vPlayers :
          /\ row.id = p
          /\ LET newScore == AdjustedScore(row.score, amount) IN
             /\ newScore <= MaxScore
             /\ players' = {IF x.id = p THEN [x EXCEPT !.score = newScore] ELSE x :
                            x \in players}
             /\ host' = [host EXCEPT ![h].vPlayers =
                          {IF x.id = p THEN [x EXCEPT !.score = newScore] ELSE x :
                           x \in host[h].vPlayers}]
             /\ lastOp' = [op |-> "updatePlayerScore", res |-> "ok",
                           arg |-> row.score + amount]
    /\ UNCHANGED <<rooms, questions, answers, nextId, client>>

\* ---------------------------------------------------------------- player page
\* The answers of player p to question q.
AnswersOf(p, q) == {row \in answers : row.player_id = p /\ row.question_id = q}

\* loadPlayerData for a stored player: the room, the active question with
\* .single(), the player's own answer to it with .single().  The call to
\* updateConnectionStatus(true) inside returns at once: the callback keeps the
\* first render's closure, where player is null.
LoadPlayerData(c) ==
    /\ client[c].playerId # NoId
    /\ PlayerExists(client[c].playerId)
    /\ LET me == CHOOSE row \in players : row.id = client[c].playerId
           act == ActiveQuestions(me.room_id)
       IN
       IF Cardinality(act) # 1
       THEN client' = [client EXCEPT ![c].roomRef = me.room_id,
                                     ![c].currentQuestion = NoId,
                                     ![c].hasAnswered = FALSE]
       ELSE LET q == CHOOSE row \in act : TRUE IN
            client' = [client EXCEPT ![c].roomRef = me.room_id,
                                     ![c].currentQuestion = q.id,
                                     ![c].hasAnswered =
                                         (Cardinality(AnswersOf(me.id, q.id)) = 1)]
    /\ UNCHANGED <<rooms, players, questions, answers, nextId, host, lastOp>>

\* The guard of submitAnswer (isSubmitting is false between two handlers).
CanSubmit(c, text) ==
    /\ Trim(text) # << >>
    /\ client[c].currentQuestion # NoId
    /\ ~client[c].hasAnswered

\* submitAnswer: one insert; the foreign keys reject an answer whose player or
\* question is gone.
SubmitAnswer(c, text) ==
    /\ client[c].playerId # NoId
    /\ CanSubmit(c, text)
    /\ nextId.answers <= MaxAnswers
    /\ IF PlayerExists(client[c].playerId) /\ QuestionExists(client[c].currentQuestion)
       THEN /\ answers' = answers \cup
                  {InsertedAnswer(nextId.answers, client[c].playerId,
                                  client[c].currentQuestion, client[c].roomRef)}
            /\ nextId' = [nextId EXCEPT !.answers = @ + 1]
            /\ client' = [client EXCEPT ![c].hasAnswered = TRUE]
            /\ Report("submitAnswer", "ok")
            /\ UNCHANGED <<rooms, players, questions, host>>
       ELSE /\ Report("submitAnswer", "error")
            /\ UNCHANGED <<rooms, players, questions, answers, nextId, host, client>>

\* Mutant of PlayersAfterStatus: a browser that goes away deletes its player.
PlayersAfterStatusDelete(ps, c, connected) ==
    {row \in ps : connected \/ row.id # client[c].playerId}

\* The player that updateConnectionStatus sees.  Its callers are loadPlayerData
\* (useCallback on [playerId]) and the handlers of the mount effect (deps
\* [loadPlayerData]): both keep the function of the first render, whose player
\* is the initial state null.
ClosurePlayer(c) == NoId

\* updateConnectionStatus: return at once without a player or a room, else
\* from("players").update({ is_connected: connected }).eq("id", playerId).
PlayersAfterStatus(ps, c, connected) ==
    IF ClosurePlayer(c) = NoId \/ client[c].roomRef = NoId THEN ps
    ELSE {IF row.id = client[c].playerId
             THEN [row EXCEPT !.is_connected = connected] ELSE row : row \in ps}

\* The visibilitychange and beforeunload handlers: updateConnectionStatus(false)
\* when the tab is hidden or closed, updateConnectionStatus(true) when it is
\* shown again.  The tables the cascades reach are written as the database
\* leaves them.
UpdateConnectionStatus(c, connected) ==
    /\ client[c].playerId # NoId
    /\ players' = PlayersAfterStatus(players, c, connected)
    /\ answers' = AnswersAfterCascade(answers, players', questions)
    /\ lastOp' = [op |-> "updateConnectionStatus", res |-> "ok",
                  arg |-> IF connected THEN 1 ELSE 0]
    /\ UNCHANGED <<rooms, questions, nextId, host, client>>

\* -------------------------------------------------------------------- realtime
\* The rows of a table that a statement inserted or updated.
Written(old, new) == new \ old

\* The rows of a table that a statement deleted.
Deleted(old, new) == {row \in old : ~\E x \in new : x.id = row.id}

\* The postgres_changes payload of a written row: the event type and, as
\* payload.new, the whole row.
ChangeOf(old, row) ==
    [eventType |-> IF \E x \in old : x.id = row.id THEN "UPDATE" ELSE "INSERT",
     new |-> row]

\* The payloads of the written rows, in the order of their ids.
RECURSIVE ChangesOf(_, _)
ChangesOf(old, rows) ==
    IF rows = {} THEN << >>
    ELSE LET first == CHOOSE row \in rows : \A x \in rows : row.id <= x.id
         IN <<ChangeOf(old, first)>> \o ChangesOf(old, rows \ {first})

\* The step of browser s has changed the tables: every joined questions channel
\* of the room (filter room_id=eq.roomId) is sent the written questions rows in
\* commit order, every host page of the room one players change per row.  The
\* DELETE changes of questions are left out: the handler reads none of them.
\* Every joined answers channel (event UPDATE, no filter) is sent the updated
\* answers rows.
Emit(s) ==
    LET qrows(r) == {row \in Written(questions, questions') : row.room_id = r}
        prows(r) == {row \in Written(players, players') \cup
                              Deleted(players, players') : row.room_id = r}
        n == Cardinality(Written(questions, questions'))
             + Cardinality(Written(players, players'))
             + Cardinality(Deleted(players, players'))
        arows == {row \in Written(answers, answers') :
                     \E x \in answers : x.id = row.id}
        heard(c) == realtime.sub[c] /\ qrows(client[c].roomRef) # {}
        alerted(h) == Attached(h) /\ prows(host[h].roomId) # {}
        changed == <<rooms', players', questions', answers'>>
                       # <<rooms, players, questions, answers>>
        tells == \/ \E c \in Clients : c # s /\ heard(c)
                 \/ \E h \in Hosts : h # s /\ alerted(h)
    IN /\ realtime.seq + n <= MaxEvents
       /\ realtime' =
            [realtime EXCEPT
               !.seq = @ + n,
               !.inbox = [c \in Clients |->
                   IF heard(c)
                   THEN @[c] \o ChangesOf(questions, qrows(client[c].roomRef))
                   ELSE @[c]],
               !.graded = [c \in Clients |->
                   IF realtime.sub[c] THEN @[c] \cup arows ELSE @[c]],
               !.pending = [h \in Hosts |->
                   IF alerted(h) THEN @[h] + Cardinality(prows(host[h].roomId))
                   ELSE @[h]],
               !.wrote = [h \in Hosts |->
                   IF h # s THEN @[h]
                   ELSE IF host'[h].pc = "idle" THEN FALSE ELSE @[h] \/ changed],
               !.told = [h \in Hosts |->
                   IF h # s THEN @[h]
                   ELSE IF host'[h].pc = "idle" THEN FALSE ELSE @[h] \/ tells]]

\* loadPlayerData has run in PlayClient c: select("*") sent it the whole row of
\* the active question.  setCurrentQuestion with a new object (or null after an
\* object) re-runs the subscriptions effect (deps [playerId, currentQuestion,
\* player?.score]): its cleanup removes the channels, and what they had
\* received is dropped.
Snapshot(c) ==
    LET q == client'[c].currentQuestion
        cols == IF q = NoId THEN {}
                ELSE DOMAIN (CHOOSE row \in questions : row.id = q)
    IN realtime' =
         IF q = NoId /\ client[c].currentQuestion = NoId
         THEN [realtime EXCEPT !.handled[c] = NoId]
         ELSE [realtime EXCEPT !.sub[c] = FALSE, !.inbox[c] = << >>,
                               !.graded[c] = {},
                               !.got[c] = @ \cup cols, !.handled[c] = NoId]

\* The subscriptions effect of PlayClient c has run with playerRoomIdRef set and
\* its channels are joined; it returns at once while the ref is null.
Subscribe(c) ==
    /\ client[c].roomRef # NoId
    /\ ~realtime.sub[c]
    /\ realtime' = [realtime EXCEPT !.sub[c] = TRUE]
    /\ UNCHANGED <<rooms, players, questions, answers, nextId, host, client, lastOp>>

\* The questions handler of PlayClient c takes the next payload: an active row
\* (INSERT or UPDATE) becomes the current question, an UPDATE that deactivates
\* the current question clears it; both re-run the subscriptions effect.
HandleQuestionEvent(c) ==
    /\ realtime.inbox[c] # << >>
    /\ LET e == Head(realtime.inbox[c])
           shows == e.new.is_active
           hides == /\ e.eventType = "UPDATE"
                    /\ ~e.new.is_active
                    /\ client[c].currentQuestion = e.new.id
       IN /\ client' =
               IF shows
               THEN [client EXCEPT ![c].currentQuestion = e.new.id,
                                   ![c].hasAnswered = FALSE]
               ELSE IF hides
               THEN [client EXCEPT ![c].currentQuestion = NoId,
                                   ![c].hasAnswered = FALSE]
               ELSE client
          /\ realtime' =
               IF shows \/ hides
               THEN [realtime EXCEPT !.sub[c] = FALSE, !.inbox[c] = << >>,
                                     !.graded[c] = {},
                                     !.got[c] = @ \cup DOMAIN e.new,
                                     !.handled[c] = e.new.id]
               ELSE [realtime EXCEPT !.inbox[c] = Tail(@),
                                     !.got[c] = @ \cup DOMAIN e.new,
                                     !.handled[c] = e.new.id]
    /\ UNCHANGED <<rooms, players, questions, answers, nextId, host, lastOp>>

\* The answers handler of PlayClient c takes the payload of row a: for a row
\* that is correct (payload.old carries the key only) it selects the pseudo of
\* a.player_id with .single() and shows the notification.
HandleAnswerEvent(c, a) ==
    /\ a \in realtime.graded[c]
    /\ client' = IF a.is_correct /\ PlayerExists(a.player_id)
                 THEN [client EXCEPT ![c].lastCorrectAnswer = a.player_id]
                 ELSE client
    /\ realtime' = [realtime EXCEPT !.graded[c] = @ \ {a}]
    /\ UNCHANGED <<rooms, players, questions, answers, nextId, host, lastOp>>

\* The players handler of HostClient h takes a change: () => loadRoomData()
\* sends the select and does not wait for it.
HandlePlayersEvent(h) ==
    /\ Attached(h)
    /\ realtime.pending[h] > 0
    /\ realtime' =
         [realtime EXCEPT
            !.pending[h] = @ - 1,
            !.fetched[h] = @ \cup {[rows |-> PlayersOfRoom(host[h].roomId),
                                    at |-> realtime.seq]}]
    /\ UNCHANGED <<rooms, players, questions, answers, nextId, host, client, lastOp>>

\* A loadRoomData request of HostClient h returns: setPlayers with its rows.
\* The requests in flight return in any order.
ApplyPlayers(h, f) ==
    /\ Attached(h)
    /\ f \in realtime.fetched[h]
    /\ host' = [host EXCEPT ![h].vPlayers = f.rows]
    /\ realtime' = [realtime EXCEPT !.fetched[h] = @ \ {f}, !.shown[h] = f.at]
    /\ UNCHANGED <<rooms, players, questions, answers, nextId, client, lastOp>>

\* ------------------------------------------------------------- specification
TextFields == TextInputs \X TextInputs

\* What Realtime does with a step of browser s: nothing when the channels are
\* left out (live is FALSE), else the changes of the step are delivered.
Feed(s, live) == IF live THEN Emit(s) ELSE UNCHANGED realtime

\* What Realtime does with a loadPlayerData of PlayClient c.
FeedSnapshot(c, live) == IF live THEN Snapshot(c) ELSE UNCHANGED realtime

\* The home page of the hosts' browsers: HC create rooms, HO open a host page.
\* In every group live says whether Realtime is part of the specification.
HostHome(HC, HO, live) ==
    \/ \E h \in HC, raw \in RawCodes : CreateRoom(h, raw) /\ Feed(h, live)
    \/ \E h \in HO, r \in RoomIds : HostOpen(h, r) /\ Feed(h, live)

\* The home page of the players' browsers: CJ join, CO open a player page.
PlayerHome(CJ, CO, live) ==
    \/ \E c \in CJ, code \in CodeInputs, pseudo \in TextInputs :
          JoinRoom(c, code, pseudo) /\ Feed(c, live)
    \/ \E c \in CO, p \in PlayerIds : PlayOpen(c, p) /\ Feed(c, live)

SendQuestion(HS, live) ==
    \/ \E h \in HS, f \in TextFields : SendQuestionBegin(h, f[1], f[2]) /\ Feed(h, live)
    \/ \E h \in HS : SendQuestionInsert(h) /\ Feed(h, live)
    \/ \E h \in HS : SendQuestionClear(h) /\ Feed(h, live)

EndGame(HS, live) ==
    \/ \E h \in HS, t \in {"answers", "questions", "players"} :
          EndGameBegin(h, t) /\ Feed(h, live)
    \/ \E h \in HS, t \in {"answers", "questions", "players"} :
          EndGameClean(h, t) /\ Feed(h, live)
    \/ \E h \in HS : EndGameRoom(h) /\ Feed(h, live)

LoadPlayers(HS, live) == \E h \in HS : LoadRoomData(h) /\ Feed(h, live)

LoadAnswers(HS, live) == \E h \in HS : LoadAnswersForQuestion(h) /\ Feed(h, live)

MarkCorrect(HS, live) ==
    \/ \E h \in HS : \E a \in host[h].vAnswers : MarkBegin(h, a) /\ Feed(h, live)
    \/ \E h \in HS : MarkWriteAnswer(h) /\ Feed(h, live)
    \/ \E h \in HS : MarkWritePlayer(h) /\ Feed(h, live)
    \/ \E h \in HS : MarkDone(h) /\ Feed(h, live)

AdjustScore(HS, live) ==
    \E h \in HS, p \in PlayerIds, amount \in Deltas :
        UpdatePlayerScore(h, p, amount) /\ Feed(h, live)

Play(CS, live) ==
    \/ \E c \in CS : LoadPlayerData(c) /\ FeedSnapshot(c, live)
    \/ \E c \in CS, text \in TextInputs : SubmitAnswer(c, text) /\ Feed(c, live)

\* The tab of a player page is hidden, shown again or closed.
Connection(CS, live) ==
    \E c \in CS, connected \in BOOLEAN :
        UpdateConnectionStatus(c, connected) /\ Feed(c, live)

\* The channels of the player pages CS.
PlayerChannels(CS) ==
    \/ \E c \in CS : Subscribe(c)
    \/ \E c \in CS : HandleQuestionEvent(c)

\* The player pages CS only watch: they load and subscribe, and leave the
\* questions payloads unhandled.
Watch(CS, live) ==
    \/ \E c \in CS : LoadPlayerData(c) /\ FeedSnapshot(c, live)
    \/ \E c \in CS : Subscribe(c)

\* The answers channel of the player pages CS.
AnswerChannel(CS) ==
    \E c \in CS : \E a \in realtime.graded[c] : HandleAnswerEvent(c, a)

\* The channel of the host pages HS.
HostChannels(HS) ==
    \/ \E h \in HS : HandlePlayersEvent(h)
    \/ \E h \in HS : \E f \in realtime.fetched[h] : ApplyPlayers(h, f)

\* One host browser and one player browser, every handler.
Next ==
    \/ HostHome({"h1"}, {}, FALSE)
    \/ PlayerHome({"c1"}, {}, FALSE)
    \/ SendQuestion({"h1"}, FALSE)
    \/ EndGame({"h1"}, FALSE)
    \/ LoadPlayers({"h1"}, FALSE)
    \/ LoadAnswers({"h1"}, FALSE)
    \/ MarkCorrect({"h1"}, FALSE)
    \/ AdjustScore({"h1"}, FALSE)
    \/ Play({"c1"}, FALSE)

Spec == Init /\ [][Next]_vars

\* The question round: two host browsers on one room, two player browsers
\* (c2 joins as a second player or shows the player of c1).
NextRound ==
    \/ HostHome({"h1"}, {"h2"}, FALSE)
    \/ PlayerHome(Clients, {"c2"}, FALSE)
    \/ SendQuestion(Hosts, FALSE)
    \/ Play(Clients, FALSE)

SpecRound == Init /\ [][NextRound]_vars

\* Grading: two host browsers on one room mark the answers of one player; h1
\* also sends the questions and adjusts the score.
NextGrading ==
    \/ HostHome({"h1"}, {"h2"}, FALSE)
    \/ PlayerHome({"c1"}, {}, FALSE)
    \/ SendQuestion({"h1"}, FALSE)
    \/ LoadPlayers({"h1"}, FALSE)
    \/ LoadAnswers(Hosts, FALSE)
    \/ MarkCorrect(Hosts, FALSE)
    \/ AdjustScore({"h1"}, FALSE)
    \/ Play({"c1"}, FALSE)

SpecGrading == Init /\ [][NextGrading]_vars

\* The lobby: two hosts each create and end a room, two players join; h1 sends
\* questions and c1 answers them.
NextLobby ==
    \/ HostHome(Hosts, {}, FALSE)
    \/ PlayerHome(Clients, {}, FALSE)
    \/ SendQuestion({"h1"}, FALSE)
    \/ EndGame(Hosts, FALSE)
    \/ Play({"c1"}, FALSE)

SpecLobby == Init /\ [][NextLobby]_vars

\* The home page alone: two hosts create and end rooms, two players join.
NextJoin ==
    \/ HostHome(Hosts, {}, FALSE)
    \/ PlayerHome(Clients, {}, FALSE)
    \/ EndGame(Hosts, FALSE)

SpecJoin == Init /\ [][NextJoin]_vars

\* One round after the other: h1 sends questions and grades, two players answer.
NextSupersede ==
    \/ HostHome({"h1"}, {}, FALSE)
    \/ PlayerHome(Clients, {}, FALSE)
    \/ SendQuestion({"h1"}, FALSE)
    \/ LoadAnswers({"h1"}, FALSE)
    \/ MarkCorrect({"h1"}, FALSE)
    \/ Play(Clients, FALSE)

SpecSupersede == Init /\ [][NextSupersede]_vars

\* The channels: h1 sends questions to a room that two players join; the page
\* of c1 and the page of h1 follow the room over Realtime.
NextLive ==
    \/ HostHome({"h1"}, {}, TRUE)
    \/ PlayerHome(Clients, {}, TRUE)
    \/ SendQuestion({"h1"}, TRUE)
    \/ Play({"c1"}, TRUE)
    \/ PlayerChannels({"c1"})
    \/ HostChannels({"h1"})

SpecLive == Init /\ [][NextLive]_vars

\* A handler that fails: h1 sends questions while h2 ends the game of the same
\* room; the page of c1 follows the room over Realtime.
NextFailure ==
    \/ HostHome({"h1"}, {"h2"}, TRUE)
    \/ PlayerHome({"c1"}, {}, TRUE)
    \/ SendQuestion({"h1"}, TRUE)
    \/ EndGame({"h2"}, TRUE)
    \/ Play({"c1"}, TRUE)
    \/ PlayerChannels({"c1"})

SpecFailure == Init /\ [][NextFailure]_vars

\* Two rooms: h1 and h2 each create one, c1 and c2 each join one; h1 runs a
\* round and grades, c1 answers, the page of c2 watches over Realtime.
NextRooms ==
    \/ HostHome(Hosts, {}, TRUE)
    \/ PlayerHome(Clients, {}, TRUE)
    \/ SendQuestion({"h1"}, TRUE)
    \/ LoadAnswers({"h1"}, TRUE)
    \/ MarkCorrect({"h1"}, TRUE)
    \/ Play({"c1"}, TRUE)
    \/ Watch({"c2"}, TRUE)
    \/ AnswerChannel({"c2"})

SpecRooms == Init /\ [][NextRooms]_vars

\* Coming and going: the tab of c1 is hidden and shown while h1 runs a round
\* and changes the score.
NextConnection ==
    \/ HostHome({"h1"}, {}, FALSE)
    \/ PlayerHome({"c1"}, {}, FALSE)
    \/ SendQuestion({"h1"}, FALSE)
    \/ LoadPlayers({"h1"}, FALSE)
    \/ AdjustScore({"h1"}, FALSE)
    \/ Play({"c1"}, FALSE)
    \/ Connection({"c1"}, FALSE)

SpecConnection == Init /\ [][NextConnection]_vars

\* The end of a game seen from a second host browser: h1 runs the room and ends
\* it, h2 shows the same room and grades.
NextEnd ==
    \/ HostHome({"h1"}, {"h2"}, FALSE)
    \/ PlayerHome({"c1"}, {}, FALSE)
    \/ SendQuestion(Hosts, FALSE)
    \/ EndGame({"h1"}, FALSE)
    \/ LoadPlayers({"h2"}, FALSE)
    \/ LoadAnswers({"h2"}, FALSE)
    \/ MarkCorrect({"h2"}, FALSE)
    \/ AdjustScore({"h2"}, FALSE)
    \/ Play({"c1"}, FALSE)

SpecEnd == Init /\ [][NextEnd]_vars

\* ------------------------------------------------------------------- claims
RoomGone(r) == r # NoId /\ ~RoomExists(r)

\* Two codes are the same up to the case of their letters.
SameCode(a, b) == ToUpperCase(a) = ToUpperCase(b)

SendingQuestion(r) ==
    \E h \in Hosts : host[h].roomId = r /\ host[h].pc \in {"sq_insert", "sq_clear"}

\* C1: whenever no sendQuestion is running on a room (every call on it has
\* completed), at most one question of the room is active.
C1_AtMostOneActiveQuestion ==
    \A r \in RoomIds : ~SendingQuestion(r) => Cardinality(ActiveQuestions(r)) <= 1

\* C2: for every player p and question q at most one answer of p to q is stored.
C2_OneAnswerPerPlayerAndQuestion ==
    \A p \in PlayerIds, q \in QuestionIds : Cardinality(AnswersOf(p, q)) <= 1

\* C3: a markAnswerCorrect call on an answer that an earlier, finished call
\* has already set correct in the table (no other call on it is running) is a
\* no-op on the scores: its write to players changes nothing.
C3_SecondMarkIsNoOp ==
    [][\A h \in Hosts :
          (/\ host[h].pc = "mk"
           /\ "answer" \in host[h].pend
           /\ \E row \in answers : row.id = host[h].mk.id /\ row.is_correct
           /\ \A g \in Hosts \ {h} : host[g].pc # "mk"
           /\ MarkWritePlayer(h))
          => players' = players]_vars

C6_CommandOnEndedRoomFails ==
    [][/\ \A h \in Hosts, p \in PlayerIds, d \in Deltas :
            (RoomGone(host[h].roomId) /\ UpdatePlayerScore(h, p, d))
            => (lastOp'.res = "error"
                /\ UNCHANGED <<rooms, players, questions, answers>>)
       /\ \A c \in Clients, text \in TextInputs :
            (RoomGone(client[c].roomRef) /\ SubmitAnswer(c, text))
            => (lastOp'.res = "error"
                /\ UNCHANGED <<rooms, players, questions, answers>>)
       /\ \A h \in Hosts :
            (RoomGone(host[h].roomId) /\ SendQuestionInsert(h))
            => (lastOp'.res = "error"
                /\ UNCHANGED <<rooms, players, questions, answers>>)]_vars

\* C7: joinRoom with a non-empty code and pseudo, when no active room has the
\* trimmed code up to case, reports an error, creates no player and stays on the
\* home page.
C7_JoinUnknownCodeFails ==
    [][\A c \in Clients, code \in CodeInputs, pseudo \in TextInputs :
          (/\ Trim(code) # << >>
           /\ Trim(pseudo) # << >>
           /\ ~\E row \in rooms : row.is_active /\ SameCode(row.code, Trim(code))
           /\ JoinRoom(c, code, pseudo))
          => (/\ players' = players
              /\ client' = client
              /\ lastOp'.res = "error")]_vars

\* C7 witness: a joinRoom has just failed although a room is stored and active.
C7_Witness ==
    /\ lastOp.op = "joinRoom"
    /\ lastOp.res = "error"
    /\ \E row \in rooms : row.is_active

\* C8: a successful joinRoom adds exactly one player, in the active room that
\* has the code up to case, with score 0 and is_connected true, under a fresh
\* id, and leaves every other player as it was.
C8_JoinCreatesOnePlayer ==
    [][\A c \in Clients, code \in CodeInputs, pseudo \in TextInputs :
          (JoinRoom(c, code, pseudo) /\ lastOp'.res = "ok")
          => \E row \in rooms :
                /\ row.is_active
                /\ SameCode(row.code, Trim(code))
                /\ ~PlayerExists(client'[c].playerId)
                /\ players' = players \cup
                      {[id |-> client'[c].playerId, room_id |-> row.id,
                        score |-> 0, is_connected |-> TRUE]}]_vars

\* C8 witness: a joinRoom has just succeeded as the second stored player.
C8_Witness ==
    /\ lastOp.op = "joinRoom"
    /\ lastOp.res = "ok"
    /\ Cardinality(players) = 2

C10_SentQuestionActiveNoAnswers ==
    [][\A h \in Hosts :
          SendQuestionClear(h)
          => (/\ \A a \in answers' : a.room_id # host[h].roomId
              /\ \E q \in questions' : q.id = host[h].newQ /\ q.is_active)]_vars

\* Some step of a sendQuestion call of host h.
SendQuestionStep(h) ==
    \/ \E f \in TextFields : SendQuestionBegin(h, f[1], f[2])
    \/ SendQuestionInsert(h)
    \/ SendQuestionClear(h)

\* C11: no step of a sendQuestion changes the is_correct flag of an answer that
\* is stored before and after the step.
C11_SupersedeKeepsIsCorrect ==
    [][\A h \in Hosts :
          SendQuestionStep(h)
          => \A a \in answers, b \in answers' :
                a.id = b.id => b.is_correct = a.is_correct]_vars

\* C11 witness: a sendQuestion has deactivated a question and inserted the next
\* one while two players' answers to the superseded question are stored, one
\* of them marked correct.
C11_Witness ==
    /\ host["h1"].pc = "sq_clear"
    /\ \E q \in questions :
          /\ ~q.is_active
          /\ Cardinality({a \in answers : a.question_id = q.id}) = 2
          /\ \E a \in answers : a.question_id = q.id /\ a.is_correct

\* The question with id q is stored and active.
QuestionActive(q) == \E row \in questions : row.id = q /\ row.is_active

\* C12: a submitAnswer for a question that is not active in the table when the
\* insert arrives reports an error and stores no answer.
C12_SubmitToInactiveQuestionFails ==
    [][\A c \in Clients, text \in TextInputs :
          (~QuestionActive(client[c].currentQuestion) /\ SubmitAnswer(c, text))
          => (answers' = answers /\ lastOp'.res = "error")]_vars

\* C13: the players write of markAnswerCorrect raises the stored score of the
\* answer's player by exactly 1 from the score stored when it lands.
C13_MarkAddsOneToStoredScore ==
    [][\A h \in Hosts :
          MarkWritePlayer(h)
          => \A old \in players, new \in players' :
                (old.id = host[h].mk.player_id /\ new.id = old.id)
                => new.score = old.score + 1]_vars

\* C14: no two stored active rooms have the same code.
C14_ActiveCodesDistinct ==
    \A a \in rooms, b \in rooms :
        (a.is_active /\ b.is_active /\ a.code = b.code) => a.id = b.id

\* C14 witness: a createRoom has just drawn the code of a stored room and has
\* been refused.
C14_Witness ==
    /\ lastOp.op = "createRoom"
    /\ lastOp.res = "error"
    /\ \E row \in rooms : row.is_active

\* C15: a createRoom call made while generateRoomCode can still draw a code
\* that no stored room has creates a room, whatever code it draws first.
C15_CreateRoomSurvivesCollision ==
    [][\A h \in Hosts, raw \in RawCodes :
          (/\ \E free \in RawCodes : ~CodeTaken(generateRoomCode(free))
           /\ CreateRoom(h, raw))
          => lastOp'.res = "ok"]_vars

\* C16: the events of a room reach a session in commit order: a host page never
\* replaces the players it shows by the players read at an earlier commit.
C16_EventsObservedInCommitOrder ==
    [][\A h \in Hosts : \A f \in realtime.fetched[h] :
          (ApplyPlayers(h, f) /\ f.at < realtime.shown[h])
              => host'[h].vPlayers = host[h].vPlayers]_vars

\* The question a snapshot of room r shows: the active one, if there is one.
SnapshotQuestion(r) ==
    IF Cardinality(ActiveQuestions(r)) # 1 THEN NoId
    ELSE (CHOOSE row \in ActiveQuestions(r) : TRUE).id

\* C17: a player page that subscribes late has missed nothing: when its
\* channels are joined, the question it shows is the question a snapshot of
\* the room shows at that moment.
C17_NothingMissedBeforeSubscription ==
    [][\A c \in Clients :
          Subscribe(c) =>
              client[c].currentQuestion = SnapshotQuestion(client[c].roomRef)]_vars

\* C18: the correct answer of a question is in nothing a player page is sent,
\* neither in the snapshot nor in a questions change.
C18_CorrectAnswerNeverDelivered ==
    \A c \in Clients : "correct_answer" \notin realtime.got[c]

C20_FailedCommandLeavesNoTrace ==
    [][\A h \in Hosts :
          (SendQuestionInsert(h) /\ ~RoomExists(host[h].roomId))
              => (~realtime.wrote[h] /\ ~realtime.told[h])]_vars

\* C21: a successful command emits exactly one event, and every event carries
\* a sequence number of its room: when the insert of a sendQuestion succeeds,
\* the handler has emitted nothing before it, and every payload a player page
\* holds has a seq field.
C21_OneNumberedEventPerCommand ==
    [][\A h \in Hosts :
          (SendQuestionInsert(h) /\ RoomExists(host[h].roomId))
              => /\ ~realtime.wrote[h]
                 /\ \A c \in Clients : \A i \in DOMAIN realtime.inbox'[c] :
                        "seq" \in DOMAIN realtime.inbox'[c][i]]_vars

\* C22: the commands on one room are applied one at a time.  Every serial
\* order of sendQuestion commands leaves the newest question of the room as its
\* only active one, so once no handler is running an active question is the
\* newest question of its room.
C22_QuiescentStateIsSerial ==
    (\A h \in Hosts : host[h].pc = "idle")
        => \A q \in questions : q.is_active
              => \A x \in questions : x.room_id = q.room_id => x.id <= q.id

\* C23: sendQuestion is all or nothing: a player page that loads a room that
\* has questions never finds it between the deactivation of the old question
\* and the insert of the new one, that is without an active question.
C23_SendQuestionAllOrNothing ==
    [][\A c \in Clients :
          LoadPlayerData(c) =>
              ((\E q \in questions : q.room_id = client'[c].roomRef)
                  => client'[c].currentQuestion # NoId)]_vars

\* C24: the stored score of a player is the sum of the deltas applied to it:
\* every updatePlayerScore moves the stored score by its clamped delta, that is
\* it writes Math.max(0, stored score + amount).
C24_AppliedDeltaReachesStore ==
    [][\A h \in Hosts, p \in PlayerIds, amount \in Deltas :
          UpdatePlayerScore(h, p, amount) =>
              \A old \in players, new \in players' :
                  (old.id = p /\ new.id = p)
                      => new.score = AdjustedScore(old.score, amount)]_vars

\* C25: entering Disconnected sets the stored is_connected of the player to
\* false: after updateConnectionStatus(false) the row of the page's player is
\* not connected.
C25_DisconnectClearsFlag ==
    [][\A c \in Clients :
          UpdateConnectionStatus(c, FALSE) =>
              \A row \in players' :
                  row.id = client[c].playerId => ~row.is_connected]_vars

\* The guard of the updateConnectionStatus(true) that loadPlayerData of
\* PlayClient c awaits, one line after it has set playerRoomIdRef.
StatusWriteSent(c) == ClosurePlayer(c) # NoId /\ client'[c].roomRef # NoId

\* C26: the updateConnectionStatus(true) of every successful loadPlayerData
\* reaches the table: it passes its guard, and the player is connected after.
C26_LoadWritesConnected ==
    [][\A c \in Clients :
          LoadPlayerData(c) =>
              /\ StatusWriteSent(c)
              /\ \A row \in players' :
                    row.id = client[c].playerId => row.is_connected]_vars

\* C27: a player page inserts at most one answer per activation of a question.
\* With one player page, the answers inserted so far are never more than the
\* questions inserted so far.
C27_OneInsertPerActivation == nextId.answers <= nextId.questions

\* C28: a player page that has handled the UPDATE deactivating the old
\* question of a sendQuestion ends at the new question: when the insert of
\* that sendQuestion is committed, the page is sent its INSERT.
C28_SupersedeReachesPlayer ==
    [][\A h \in Hosts, c \in Clients :
          (/\ SendQuestionInsert(h)
           /\ RoomExists(host[h].roomId)
           /\ client[c].roomRef = host[h].roomId
           /\ realtime.handled[c] # NoId
           /\ client[c].currentQuestion = NoId)
              => /\ realtime'.inbox[c] # << >>
                 /\ LET e == realtime'.inbox[c][Len(realtime'.inbox[c])]
                    IN e.eventType = "INSERT" /\ e.new.id = host'[h].newQ]_vars

\* C29: a player page shows the notification of a correct answer only for an
\* answer of its own room: an answers payload that changes the page belongs to
\* the room of the page.
C29_NoticeOnlyFromOwnRoom ==
    [][\A c \in Clients : \A a \in realtime.graded[c] :
          (HandleAnswerEvent(c, a) /\ client'[c] # client[c])
              => a.room_id = client[c].roomRef]_vars

\* C30: the players list of a host page converges: once every players change
\* sent to the page is handled and every loadRoomData request has returned, the
\* list has the players and scores of the room as stored.
C30_HostViewConverges ==
    \A h \in Hosts :
        (Attached(h) /\ realtime.pending[h] = 0 /\ realtime.fetched[h] = {})
            => host[h].vPlayers = PlayersOfRoom(host[h].roomId)

====
